---- MODULE Spec2Model ----
(***************************************************************************)
(* Model of the economy ledger: utils/economy-db.js (the JSON file store)  *)
(* and commands/Economy.js (the async command handler).                    *)
(*                                                                         *)
(* Execution model: one Node.js process.  Every db.* function is           *)
(* synchronous (readFileSync / writeFileSync), so handler invocations      *)
(* interleave only at the handler's `await` points; between two awaits a   *)
(* handler holds the thread (variable cpu).  Each writeFileSync is its own *)
(* step, so the persisted file is visible between two writes of one        *)
(* synchronous block (to a crash, never to another handler).               *)
(*                                                                         *)
(* Strings are sequences of one-character tokens; the token "@" stands for *)
(* the "@s.whatsapp.net" suffix and a word token such as "red" for a run   *)
(* of letters.  The empty sequence stands for a missing / falsy argument.  *)
(***************************************************************************)
EXTENDS Integers, Sequences, FiniteSets, TLC

VARIABLES
    file,       \* database/economy.json: the `users` object, userId -> record
    now,        \* Date.now()
    ticks,      \* number of clock advances so far (bounds the clock)
    cpu,        \* handler running a synchronous block, 0 when the loop is idle
    handlers,   \* handler invocation -> its position and locals
    inbox,      \* the messages that may be delivered to the handler
    crashed     \* TRUE once the process has been killed

vars == <<file, now, ticks, cpu, handlers, inbox, crashed>>

\* ------------------------------------------------------------------ bounds
MaxHandlers == 2
MaxTicks == 2
MaxLedgerTicks == 1
RandDen == 100

H == 1..MaxHandlers

\* ----------------------------------------------------------------- strings
Digits == {"0", "1", "2", "3", "4", "5", "6", "7", "8", "9"}

IsDigit(c) == c \in Digits

DigitVal(c) ==
    CASE c = "0" -> 0 [] c = "1" -> 1 [] c = "2" -> 2 [] c = "3" -> 3
      [] c = "4" -> 4 [] c = "5" -> 5 [] c = "6" -> 6 [] c = "7" -> 7
      [] c = "8" -> 8 [] c = "9" -> 9

Max(a, b) == IF a >= b THEN a ELSE b

RECURSIVE DigitPrefix(_)
DigitPrefix(s) ==
    IF s = <<>> \/ ~IsDigit(Head(s)) THEN <<>>
    ELSE <<Head(s)>> \o DigitPrefix(Tail(s))

RECURSIVE DecValue(_)
DecValue(s) ==
    IF s = <<>> THEN 0
    ELSE DecValue(SubSeq(s, 1, Len(s) - 1)) * 10 + DigitVal(s[Len(s)])

NaN == [nan |-> TRUE, val |-> 0]

\* JavaScript parseInt(s, 10): optional sign, then the longest run of digits.
parseInt(s) ==
    LET signed == s # <<>> /\ Head(s) \in {"-", "+"}
        body == IF signed THEN Tail(s) ELSE s
        ds == DigitPrefix(body)
    IN  IF ds = <<>> THEN NaN
        ELSE [nan |-> FALSE,
              val |-> IF signed /\ Head(s) = "-" THEN 0 - DecValue(ds) ELSE DecValue(ds)]

\* s.replace(/@.*$/, '')
RECURSIVE StripAt(_)
StripAt(s) ==
    IF s = <<>> \/ Head(s) = "@" THEN <<>>
    ELSE <<Head(s)>> \o StripAt(Tail(s))

Arg(args, i) == IF Len(args) >= i THEN args[i] ELSE <<>>

\* ------------------------------------------------------------ Economy.js
MS_HOUR == 3600 * 1000
MS_DAY == 24 * 3600 * 1000
MS_WEEK == 7 * 24 * 3600 * 1000

\* min is subtracted where it has to be added
rand_minSubtracted(min, max, k) == ((k * (max - min + 1)) \div RandDen) - min

\* Math.floor(Math.random() * (max - min + 1)) + min, Math.random() = k / RandDen
rand(min, max, k) == ((k * (max - min + 1)) \div RandDen) + min

OWNER_LIST == { <<"1">> }

\* the owner check left out
isOwnerId_anyone(userId) == userId # <<>>

isOwnerId(userId) ==
    IF userId = <<>> THEN FALSE
    ELSE LET uid == StripAt(userId)
         IN  \E o \in OWNER_LIST :
                /\ o # <<>>
                /\ (StripAt(o) = uid \/ StripAt(o) = userId)

parseUserArg(arg) ==
    IF arg = <<>> THEN <<>>
    ELSE IF \E i \in 1..(Len(arg) - 1) : IsDigit(arg[i]) /\ arg[i + 1] = "@" THEN arg
    ELSE LET digits == SelectSeq(arg, IsDigit)
         IN  IF digits = <<>> THEN <<>> ELSE digits \o <<"@">>

parseBet(a) ==
    IF a = <<>> THEN 0
    ELSE LET num == parseInt(SelectSeq(a, LAMBDA c : IsDigit(c) \/ c = "-"))
         IN  IF num.nan THEN 0 ELSE Max(1, num.val)

EarnCmds == {"dig", "fish", "work", "daily", "weekly"}
WagerCmds == {"spin", "slots", "roulette", "casino"}

cooldownMs(cmd) ==
    CASE cmd \in {"dig", "fish"} -> 30 * 60 * 1000
      [] cmd = "work" -> 60 * 60 * 1000
      [] cmd = "daily" -> MS_DAY
      [] cmd = "weekly" -> MS_WEEK

\* ---------------------------------------------------------- economy-db.js
EmptyDb == [k \in {} |-> 0]

NewUser == [gold |-> 0, cooldowns |-> [k \in {} |-> 0], history |-> <<>>]

load == file

\* the catch branch of load: readFileSync or JSON.parse threw
loadFailed == EmptyDb

save(db) == db

\* a write that saves the one record alone, not the collection it was read from
set_alone(db, userId, obj) == save([k \in {userId} |-> obj])

\* db.users[userId] || null: a one-element sequence, or the empty one for null
getUser(db, userId) == IF userId \in DOMAIN db THEN <<db[userId]>> ELSE <<>>

set(db, userId, obj) ==
    save([k \in DOMAIN db \cup {userId} |-> IF k = userId THEN obj ELSE db[k]])

\* an ensureUser that writes the new record whether or not the account exists
ensureUser_reset(db, userId) == set(db, userId, NewUser)

ensureUser(db, userId) ==
    IF userId \notin DOMAIN db THEN set(db, userId, NewUser) ELSE db

add(db, userId, amount, t) ==
    LET d == ensureUser(db, userId)
        u == d[userId]
    IN  set(d, userId,
            [u EXCEPT !.gold = @ + amount,
                      !.history = Append(@, [time |-> t, change |-> amount])])

\* a debit that forgets the clamp at zero
remove_unclamped(db, userId, amount, t) ==
    LET d == ensureUser(db, userId)
        u == d[userId]
    IN  set(d, userId,
            [u EXCEPT !.gold = @ - amount,
                      !.history = Append(@, [time |-> t, change |-> 0 - amount])])

\* a debit that writes back the balance it read, so the debit is lost
remove_lost(db, userId, amount, t) ==
    LET d == ensureUser(db, userId)
        u == d[userId]
    IN  set(d, userId,
            [u EXCEPT !.history = Append(@, [time |-> t, change |-> 0 - amount])])

remove(db, userId, amount, t) ==
    LET d == ensureUser(db, userId)
        u == d[userId]
    IN  set(d, userId,
            [u EXCEPT !.gold = Max(0, @ - amount),
                      !.history = Append(@, [time |-> t, change |-> 0 - amount])])

\* the timestamp is set on the loaded record but the record is never written back
setCooldown_unsaved(db, userId, key, timestamp) == ensureUser(db, userId)

\* the timestamp is stored in seconds, with its sign reversed
setCooldown_negated(db, userId, key, timestamp) ==
    LET d == ensureUser(db, userId)
        u == d[userId]
        cd == [k \in DOMAIN u.cooldowns \cup {key} |->
                  IF k = key THEN 0 - (timestamp \div 1000) ELSE u.cooldowns[k]]
    IN  set(d, userId, [u EXCEPT !.cooldowns = cd])

setCooldown(db, userId, key, timestamp) ==
    LET d == ensureUser(db, userId)
        u == d[userId]
        cd == [k \in DOMAIN u.cooldowns \cup {key} |->
                  IF k = key THEN timestamp ELSE u.cooldowns[k]]
    IN  set(d, userId, [u EXCEPT !.cooldowns = cd])

getCooldown(db, userId, key) ==
    LET u == ensureUser(db, userId)[userId]
    IN  IF key \in DOMAIN u.cooldowns /\ u.cooldowns[key] # 0
        THEN u.cooldowns[key] ELSE 0

\* a strict comparison: the claim at exactly last + ms is refused
canClaim_strict(db, userId, key, ms, t) ==
    LET last == getCooldown(db, userId, key)
    IN  IF last = 0 THEN TRUE ELSE (t - last) > ms

canClaim(db, userId, key, ms, t) ==
    LET last == getCooldown(db, userId, key)
    IN  IF last = 0 THEN TRUE ELSE (t - last) >= ms

\* ------------------------------------------------- Economy.js: the games
\* r < bound, for r = Math.random() * 100 and Math.random() = k / RandDen
Below(k, bound) == k * 100 < bound * RandDen

spinMult(k) ==
    IF Below(k, 50) THEN 0
    ELSE IF Below(k, 85) THEN 2
    ELSE IF Below(k, 97) THEN 5
    ELSE 10

\* symbols[4] is the seven
slotsMult(k1, k2, k3) ==
    LET a == rand(0, 4, k1)
        b == rand(0, 4, k2)
        c == rand(0, 4, k3)
    IN  IF a = b /\ b = c THEN (IF a = 4 THEN 10 ELSE 5)
        ELSE IF a = b \/ b = c \/ a = c THEN 2
        ELSE 0

wheelColor(wheelNum) ==
    IF wheelNum = 0 THEN <<"green">>
    ELSE IF wheelNum % 2 = 0 THEN <<"black">> ELSE <<"red">>

rouletteMult(pick, k) ==
    LET wheelNum == rand(0, 36, k)
        color == wheelColor(wheelNum)
    IN  IF pick = <<>> THEN 0
        ELSE IF \A i \in 1..Len(pick) : IsDigit(pick[i])
        THEN (IF parseInt(pick).val = wheelNum THEN 36 ELSE 0)
        ELSE IF pick = color THEN (IF color = <<"green">> THEN 14 ELSE 2)
        ELSE 0

casinoMult(k) ==
    IF Below(k, 45) THEN 0
    ELSE IF Below(k, 85) THEN 2
    ELSE 5

\* the multiplier a wager settles with; 0 is a loss
wagerMult(cmd, args, k1, k2, k3) ==
    CASE cmd = "spin" -> spinMult(k1)
      [] cmd = "slots" -> slotsMult(k1, k2, k3)
      [] cmd = "roulette" -> rouletteMult(Arg(args, 2), k1)
      [] cmd = "casino" -> casinoMult(k1)

\* an off-by-one in the funds check: a bet of the whole balance is refused
stakeAndCheck_strict(db, userId, bet) ==
    LET u == getUser(db, userId)
        bal == IF u # <<>> THEN u[1].gold ELSE 0
    IN  IF bet <= 0 THEN [ok |-> FALSE, msg |-> "Specify a bet > 0", bal |-> bal]
        ELSE IF bet >= bal THEN [ok |-> FALSE, msg |-> "Insufficient funds", bal |-> bal]
        ELSE [ok |-> TRUE, msg |-> "", bal |-> bal]

stakeAndCheck(db, userId, bet) ==
    LET u == getUser(db, userId)
        bal == IF u # <<>> THEN u[1].gold ELSE 0
    IN  IF bet <= 0 THEN [ok |-> FALSE, msg |-> "Specify a bet > 0", bal |-> bal]
        ELSE IF bet > bal THEN [ok |-> FALSE, msg |-> "Insufficient funds", bal |-> bal]
        ELSE [ok |-> TRUE, msg |-> "", bal |-> bal]

\* the reward of an earning action, from its random draws
workReward(job, k) ==
    CASE job = <<"developer">> -> rand(150, 350, k)
      [] job = <<"miner">> -> rand(100, 300, k)
      [] job = <<"chef">> -> rand(60, 200, k)
      [] job = <<"driver">> -> rand(50, 180, k)
      [] job = <<"artist">> -> rand(40, 150, k)
      [] OTHER -> rand(50, 200, k)

jobs == << <<"miner">>, <<"developer">>, <<"chef">>, <<"driver">>, <<"artist">> >>

\* the daily bonus paid from the weekly range
earnReward_weeklyRange(cmd, args, kJob, k) ==
    CASE cmd = "dig" -> rand(10, 60, k)
      [] cmd = "fish" -> rand(8, 50, k)
      [] cmd = "work" ->
            workReward(IF Arg(args, 1) # <<>> THEN Arg(args, 1)
                       ELSE jobs[rand(0, Len(jobs) - 1, kJob) + 1], k)
      [] cmd \in {"daily", "weekly"} -> rand(1000, 3000, k)

earnReward(cmd, args, kJob, k) ==
    CASE cmd = "dig" -> rand(10, 60, k)
      [] cmd = "fish" -> rand(8, 50, k)
      [] cmd = "work" ->
            workReward(IF Arg(args, 1) # <<>> THEN Arg(args, 1)
                       ELSE jobs[rand(0, Len(jobs) - 1, kJob) + 1], k)
      [] cmd = "daily" -> rand(150, 400, k)
      [] cmd = "weekly" -> rand(1000, 3000, k)

\* the unit the declined reply rounds the wait up to
waitUnit(cmd) ==
    CASE cmd \in {"dig", "fish", "work"} -> 60000
      [] cmd = "daily" -> 3600 * 1000
      [] cmd = "weekly" -> MS_DAY

\* Math.ceil(a / b), b > 0
Ceil(a, b) == 0 - ((0 - a) \div b)

\* ------------------------------------------------------ sampled inputs
\* Math.random() = k / RandDen, for the sampled numerators k
RewardDraws == {0, RandDen - 1}
JobDraws == {0, RandDen - 1}
SlotDraws == {0, 50, 99}
WagerDraws(cmd) ==
    CASE cmd = "spin" -> {0, 49, 50, 84, 85, 96, 97, 99}
      [] cmd = "slots" -> SlotDraws
      [] cmd = "roulette" -> {0, 30, 50, 99}
      [] cmd = "casino" -> {0, 44, 45, 84, 85, 99}

\* the clock advances by 1 ms or to 1 ms before a cooldown of a pending action ends
TickSteps == {1} \cup {cooldownMs(m.cmd) - 1 : m \in {x \in inbox : x.cmd \in EarnCmds}}

\* ------------------------------------------------ Economy.js: the handler
Idle ==
    [pc |-> "idle", userId |-> <<>>, cmd |-> "", args |-> <<>>,
     bet |-> 0, ok |-> FALSE, msg |-> "", bal |-> 0,
     recipient |-> <<>>, amount |-> 0, reward |-> 0,
     checkedAt |-> 0, wait |-> 0, grantedAt |-> 0]

\* a turn of the event loop may start: the thread is free
LoopIdle == cpu = 0 /\ ~crashed

\* the handler returns; its locals are dropped
Return(h) == handlers' = [handlers EXCEPT ![h] = [Idle EXCEPT !.pc = "done"]]

\* an earning handler returns; what it decided is kept as the record of its reply
Reply(h, rec) ==
    handlers' = [handlers EXCEPT ![h] =
        [Idle EXCEPT !.pc = "done", !.userId = rec.userId, !.cmd = rec.cmd,
                     !.ok = rec.ok, !.checkedAt = rec.checkedAt,
                     !.wait = rec.wait, !.grantedAt = rec.grantedAt]]

\* lines 95-105: the handler up to its first await
Invoke(h) ==
    /\ LoopIdle
    /\ handlers[h].pc = "idle"
    /\ \A g \in H : g < h => handlers[g].pc # "idle"
    /\ \E m \in inbox :
          IF ~m.text \/ m.userId = <<>>
          THEN /\ Return(h)
               /\ UNCHANGED file
          ELSE /\ file' = ensureUser(load, m.userId)
               /\ handlers' = [handlers EXCEPT ![h] =
                     [@ EXCEPT !.pc = "dispatch", !.userId = m.userId,
                               !.cmd = m.cmd, !.args = m.args]]
    /\ UNCHANGED <<now, ticks, cpu, inbox, crashed>>

\* lines 95-105, the store read of db.ensureUser(userId) failing
InvokeReadFails(h) ==
    /\ LoopIdle
    /\ handlers[h].pc = "idle"
    /\ \A g \in H : g < h => handlers[g].pc # "idle"
    /\ \E m \in inbox :
          /\ m.text /\ m.userId # <<>>
          /\ file' = ensureUser(loadFailed, m.userId)
          /\ handlers' = [handlers EXCEPT ![h] =
                [@ EXCEPT !.pc = "dispatch", !.userId = m.userId,
                          !.cmd = m.cmd, !.args = m.args]]
    /\ UNCHANGED <<now, ticks, cpu, inbox, crashed>>

\* lines 111-114
Balance(h) ==
    /\ LoopIdle
    /\ handlers[h].pc = "dispatch"
    /\ handlers[h].cmd \in {"balance", "bal"}
    /\ getUser(load, handlers[h].userId) # <<>>
    /\ Return(h)
    /\ UNCHANGED <<file, now, ticks, cpu, inbox, crashed>>

\* lines 117-130: the checks of give, up to `await db.ensureUser(recipient)`
Give(h) ==
    /\ LoopIdle
    /\ handlers[h].pc = "dispatch"
    /\ handlers[h].cmd \in {"give", "grant"}
    /\ LET me == handlers[h]
           targetArg == Arg(me.args, 1)
           amountArg == Arg(me.args, 2)
           recipient == parseUserArg(targetArg)
           amount == parseInt(amountArg)
       IN  IF ~isOwnerId(me.userId)
           THEN Return(h) /\ UNCHANGED file
           ELSE IF targetArg = <<>> \/ amountArg = <<>>
           THEN Return(h) /\ UNCHANGED file
           ELSE IF recipient = <<>>
           THEN Return(h) /\ UNCHANGED file
           ELSE IF amount.nan \/ amount.val = 0 \/ amount.val <= 0
           THEN Return(h) /\ UNCHANGED file
           ELSE /\ file' = ensureUser(load, recipient)
                /\ handlers' = [handlers EXCEPT ![h] =
                      [me EXCEPT !.pc = "give_add", !.recipient = recipient,
                                 !.amount = amount.val]]
    /\ UNCHANGED <<now, ticks, cpu, inbox, crashed>>

\* lines 131-132
GiveAdd(h) ==
    /\ LoopIdle
    /\ handlers[h].pc = "give_add"
    /\ file' = add(load, handlers[h].recipient, handlers[h].amount, now)
    /\ handlers' = [handlers EXCEPT ![h] =
          [Idle EXCEPT !.pc = "done", !.cmd = handlers[h].cmd,
                       !.recipient = handlers[h].recipient,
                       !.amount = handlers[h].amount]]
    /\ UNCHANGED <<now, ticks, cpu, inbox, crashed>>

\* db.canClaim of an earning action (lines 139, 153, 177, 190)
EarnCheck(h) ==
    /\ LoopIdle
    /\ handlers[h].pc = "dispatch"
    /\ handlers[h].cmd \in EarnCmds
    /\ LET me == handlers[h]
           granted == canClaim(load, me.userId, me.cmd, cooldownMs(me.cmd), now)
       IN  handlers' = [handlers EXCEPT ![h] =
              [me EXCEPT !.pc = IF granted THEN "credit" ELSE "decline",
                         !.ok = granted, !.checkedAt = now]]
    /\ file' = ensureUser(load, handlers[h].userId)
    /\ cpu' = h
    /\ UNCHANGED <<now, ticks, inbox, crashed>>

\* the declined reply (lines 140-142, 154-156, 178-180, 191-193)
EarnDecline(h) ==
    /\ cpu = h /\ ~crashed
    /\ handlers[h].pc = "decline"
    /\ LET me == handlers[h]
           last == getCooldown(load, me.userId, me.cmd)
           wait == Ceil(cooldownMs(me.cmd) - (now - last), waitUnit(me.cmd))
       IN  Reply(h, [me EXCEPT !.wait = wait])
    /\ file' = ensureUser(load, handlers[h].userId)
    /\ cpu' = 0
    /\ UNCHANGED <<now, ticks, inbox, crashed>>

\* the reward and db.add (lines 144-145, 158-169, 182-183, 195-196)
EarnAdd(h) ==
    /\ cpu = h /\ ~crashed
    /\ handlers[h].pc = "credit"
    /\ \E kJob \in IF handlers[h].cmd = "work" THEN JobDraws ELSE {0} :
       \E k \in RewardDraws :
          LET me == handlers[h]
              reward == earnReward(me.cmd, me.args, kJob, k)
          IN  /\ file' = add(load, me.userId, reward, now)
              /\ handlers' = [handlers EXCEPT ![h] =
                    [me EXCEPT !.pc = "setcd", !.reward = reward]]
    /\ UNCHANGED <<now, ticks, cpu, inbox, crashed>>

\* db.setCooldown(userId, key, Date.now()) (lines 146, 170, 184, 197)
EarnSetCooldown(h) ==
    /\ cpu = h /\ ~crashed
    /\ handlers[h].pc = "setcd"
    /\ file' = setCooldown(load, handlers[h].userId, handlers[h].cmd, now)
    /\ Reply(h, [handlers[h] EXCEPT !.grantedAt = now])
    /\ cpu' = 0
    /\ UNCHANGED <<now, ticks, inbox, crashed>>

\* parseBet and `await stakeAndCheck(bet)` (lines 212-213, 233-234, 259-261, 294-295)
StakeAndCheck(h) ==
    /\ LoopIdle
    /\ handlers[h].pc = "dispatch"
    /\ handlers[h].cmd \in WagerCmds
    /\ LET me == handlers[h]
           bet == parseBet(Arg(me.args, 1))
           chk == stakeAndCheck(load, me.userId, bet)
       IN  handlers' = [handlers EXCEPT ![h] =
              [me EXCEPT !.pc = "settle", !.bet = bet, !.ok = chk.ok,
                         !.msg = chk.msg, !.bal = chk.bal]]
    /\ UNCHANGED <<file, now, ticks, cpu, inbox, crashed>>

\* after the await: the draw and the single db.remove or db.add (lines 214-310)
Settle(h) ==
    /\ LoopIdle
    /\ handlers[h].pc = "settle"
    /\ LET me == handlers[h]
       IN  IF ~me.ok
           THEN Return(h) /\ UNCHANGED file
           ELSE \E k1 \in WagerDraws(me.cmd) :
                \E k2, k3 \in IF me.cmd = "slots" THEN SlotDraws ELSE {0} :
                   LET mult == wagerMult(me.cmd, me.args, k1, k2, k3)
                   IN  /\ file' = IF mult = 0
                                  THEN remove(load, me.userId, me.bet, now)
                                  ELSE add(load, me.userId, me.bet * mult, now)
                       /\ Return(h)
    /\ UNCHANGED <<now, ticks, cpu, inbox, crashed>>

\* line 312
Unknown(h) ==
    /\ LoopIdle
    /\ handlers[h].pc = "dispatch"
    /\ handlers[h].cmd \notin
          {"balance", "bal", "give", "grant"} \cup EarnCmds \cup WagerCmds
    /\ Return(h)
    /\ UNCHANGED <<file, now, ticks, cpu, inbox, crashed>>

\* the clock advances, also inside a synchronous block (kept within 32 bits)
Tick(max) ==
    /\ ticks < max
    /\ \E d \in TickSteps : d <= 2147483647 - now /\ now' = now + d
    /\ ticks' = ticks + 1
    /\ UNCHANGED <<file, cpu, handlers, inbox, crashed>>

\* the process is killed while handlers are in flight; the file stays as written
Crash ==
    /\ ~crashed
    /\ \E h \in H : handlers[h].pc \notin {"idle", "done"}
    /\ crashed' = TRUE
    /\ cpu' = 0
    /\ UNCHANGED <<file, now, ticks, handlers, inbox>>

\* ---------------------------------------------------------- specifications
U1 == <<"1", "@">>
U2 == <<"2", "@">>

Msg(userId, cmd, args) == [text |-> TRUE, userId |-> userId, cmd |-> cmd, args |-> args]

\* an account holding gold, credited by one earlier give
Funded(userId, gold) ==
    add(EmptyDb, userId, gold, 1)

\* the ledger operations: a balance query, a give, an earning claim, the four games
Messages ==
    { Msg(U2, "balance", <<>>),
      Msg(U1, "give", << <<"2">>, <<"2">> >>),
      Msg(U2, "dig", <<>>),
      Msg(U2, "spin", << <<"2">> >>),
      Msg(U2, "slots", << <<"1">> >>),
      Msg(U2, "roulette", << <<"1">>, <<"red">> >>),
      Msg(U2, "casino", << <<"1">> >>) }

InitCommon ==
    /\ now = 1
    /\ ticks = 0
    /\ cpu = 0
    /\ handlers = [h \in H |-> Idle]
    /\ crashed = FALSE

Init ==
    /\ InitCommon
    /\ file = Funded(U2, 2)
    /\ inbox = Messages

Next ==
    \/ \E h \in H :
          \/ Invoke(h) \/ Balance(h) \/ Give(h) \/ GiveAdd(h)
          \/ EarnCheck(h) \/ EarnDecline(h) \/ EarnAdd(h) \/ EarnSetCooldown(h)
          \/ StakeAndCheck(h) \/ Settle(h)
    \/ Tick(MaxLedgerTicks)

Spec == Init /\ [][Next]_vars

\* input validation: malformed, zero, negative and oversized bets and amounts,
\* callers that are not owners, unknown commands, an empty message
InputMessages ==
    { [text |-> FALSE, userId |-> U2, cmd |-> "", args |-> <<>>],
      Msg(U2, "foo", <<>>),
      Msg(U1, "give", << <<"2">>, <<"2">> >>),
      Msg(U1, "give", << <<"2", "@">>, <<"0">> >>),
      Msg(U1, "give", << <<"2">>, <<"-", "1">> >>),
      Msg(U1, "give", << <<"2">>, <<"2", "x">> >>),
      Msg(U1, "give", << <<"2">> >>),
      Msg(U1, "give", << <<"x">>, <<"2">> >>),
      Msg(U2, "give", << <<"2">>, <<"2">> >>),
      Msg(U2, "spin", << <<"2">> >>),
      Msg(U2, "spin", << <<"3">> >>),
      Msg(U2, "spin", << <<"0">> >>),
      Msg(U2, "spin", <<>>),
      Msg(U2, "slots", << <<"-", "1">> >>),
      Msg(U2, "roulette", << <<"x">>, <<"red">> >>),
      Msg(U2, "casino", << <<"x", "5">> >>) }

InitInput ==
    /\ InitCommon
    /\ file \in {EmptyDb, Funded(U2, 2)}
    /\ inbox = InputMessages

NextInput ==
    \E h \in H :
        \/ Invoke(h) \/ Give(h) \/ GiveAdd(h)
        \/ StakeAndCheck(h) \/ Settle(h) \/ Unknown(h)

SpecInput == InitInput /\ [][NextInput]_vars

\* N concurrent wagers of one bet b on one account funded with B >= N * b
BetArgs == { <<"1">>, <<"2">> }

InitWager ==
    /\ InitCommon
    /\ \E a \in BetArgs : \E extra \in {0, 1} :
          /\ inbox = {Msg(U2, "spin", <<a>>)}
          /\ file = Funded(U2, MaxHandlers * DecValue(a) + extra)

NextWager == \E h \in H : Invoke(h) \/ StakeAndCheck(h) \/ Settle(h)

SpecWager == InitWager /\ [][NextWager]_vars

\* concurrent claims of one earning action on one new account, the clock running
InitEarn ==
    /\ InitCommon
    /\ file = EmptyDb
    /\ \E cmd \in EarnCmds : inbox = {Msg(U2, cmd, <<>>)}

NextEarn ==
    \/ \E h \in H :
          \/ Invoke(h)
          \/ EarnCheck(h) \/ EarnDecline(h) \/ EarnAdd(h) \/ EarnSetCooldown(h)
    \/ Tick(MaxTicks)

SpecEarn == InitEarn /\ [][NextEarn]_vars

\* the same, with the process killed at any point
NextCrash == NextEarn \/ Crash

SpecCrash == InitEarn /\ [][NextCrash]_vars

\* a balance query and a give, with store reads that may fail on entry
ReadFailMessages ==
    { Msg(U2, "balance", <<>>),
      Msg(U1, "balance", <<>>),
      Msg(U1, "give", << <<"2">>, <<"2">> >>),
      Msg(U1, "give", << <<"2">>, <<"1">> >>) }

InitReadFail ==
    /\ InitCommon
    /\ file = Funded(U2, 2)
    /\ inbox = ReadFailMessages

NextReadFail ==
    \E h \in H :
        \/ Invoke(h) \/ InvokeReadFails(h)
        \/ Balance(h) \/ Give(h) \/ GiveAdd(h)

SpecReadFail == InitReadFail /\ [][NextReadFail]_vars

\* two accounts in use at once: a give from one to the other, earning claims
\* of both, a wager and a balance query
AccountMessages ==
    { Msg(U1, "give", << <<"2">>, <<"2">> >>),
      Msg(U1, "dig", <<>>),
      Msg(U2, "dig", <<>>),
      Msg(U2, "spin", << <<"1">> >>),
      Msg(U2, "balance", <<>>) }

InitAccounts ==
    /\ InitCommon
    /\ file = Funded(U2, 2)
    /\ inbox = AccountMessages

NextAccounts ==
    \E h \in H :
        \/ Invoke(h) \/ Balance(h) \/ Give(h) \/ GiveAdd(h)
        \/ EarnCheck(h) \/ EarnDecline(h) \/ EarnAdd(h) \/ EarnSetCooldown(h)
        \/ StakeAndCheck(h) \/ Settle(h)

SpecAccounts == InitAccounts /\ [][NextAccounts]_vars

\* ------------------------------------------------------------------ claims
RECURSIVE SumChanges(_)
SumChanges(history) ==
    IF history = <<>> THEN 0
    ELSE SumChanges(SubSeq(history, 1, Len(history) - 1)) + history[Len(history)].change

\* C1: the stored balance of every account is >= 0 after every operation,
\* in every interleaving of handler invocations.
C1_BalanceNonNegative == \A id \in DOMAIN file : file[id].gold >= 0

\* a losing debit larger than the balance has been applied and clamped to zero
C1_Witness ==
    \E id \in DOMAIN file :
        /\ file[id].gold = 0
        /\ SumChanges(file[id].history) < 0

\* C2: for every account the sum of the `change` values of its history equals
\* its balance (a clamped debit would have to record the delta applied).
C2_HistoryReplaysBalance ==
    \A id \in DOMAIN file : SumChanges(file[id].history) = file[id].gold

\* the step in which handler h commits a losing wager debit
LosingDebit(h) ==
    /\ handlers[h].pc = "settle" /\ handlers'[h].pc = "done"
    /\ file'[handlers[h].userId].history # file[handlers[h].userId].history
    /\ file'[handlers[h].userId].history[Len(file'[handlers[h].userId].history)].change < 0

\* C4: whenever a wager's losing debit is committed, bet <= the balance at
\* that moment, so the clamp in remove never triggers on the wager path.
C4_WagerDebitNeverClamps ==
    [][\A h \in H :
          LosingDebit(h) => handlers[h].bet <= file[handlers[h].userId].gold]_vars

\* the balance the store holds for an account (0 when there is none)
GoldOf(db, id) == IF id \in DOMAIN db THEN db[id].gold ELSE 0

\* C8: a wager with bet = B (B >= 1) is accepted; a wager with bet > B is
\* declined as insufficient funds and leaves the store unchanged.
C8_StakeBoundary ==
    [][\A h \in H :
          /\ (handlers[h].pc = "dispatch" /\ handlers'[h].pc = "settle") =>
                LET B == GoldOf(file, handlers[h].userId)
                    bet == handlers'[h].bet
                IN  /\ (bet = B /\ B >= 1) => handlers'[h].ok
                    /\ bet > B => (~handlers'[h].ok /\ handlers'[h].msg = "Insufficient funds")
                    /\ file' = file
          /\ (handlers[h].pc = "settle" /\ ~handlers[h].ok /\ handlers'[h].pc = "done")
                => file' = file]_vars

\* one wager of the whole balance stands accepted, another of balance + 1 declined
C8_Witness ==
    \E g, h \in H :
        /\ handlers[g].pc = "settle" /\ handlers[g].ok
        /\ handlers[g].bet = GoldOf(file, handlers[g].userId)
        /\ handlers[h].pc = "settle" /\ ~handlers[h].ok
        /\ handlers[h].bet = GoldOf(file, handlers[h].userId) + 1
        /\ GoldOf(file, handlers[h].userId) >= 1

\* a decimal numeral: an optional sign and then digits only
IsNumeral(a) ==
    LET body == IF a # <<>> /\ Head(a) \in {"-", "+"} THEN Tail(a) ELSE a
    IN  body # <<>> /\ \A i \in 1..Len(body) : IsDigit(body[i])

NumeralValue(a) ==
    IF Head(a) = "-" THEN 0 - DecValue(Tail(a))
    ELSE IF Head(a) = "+" THEN DecValue(Tail(a)) ELSE DecValue(a)

\* the argument is missing, non-numeric, zero or negative
InvalidAmountArg(a) == ~IsNumeral(a) \/ NumeralValue(a) <= 0

\* C9: a wager whose bet argument is non-numeric, zero or negative is declined
\* (and so changes nothing).
C9_InvalidBetDeclined ==
    \A h \in H :
        (handlers[h].pc = "settle" /\ InvalidAmountArg(Arg(handlers[h].args, 1)))
            => ~handlers[h].ok

\* the step of handler h is a step of a give command
GiveStep(h) ==
    /\ handlers'[h] # handlers[h]
    /\ (handlers[h].cmd \in {"give", "grant"} \/ handlers'[h].cmd \in {"give", "grant"})

\* the give command as handler h received it
GiveOf(h) == IF handlers[h].pc = "idle" THEN handlers'[h] ELSE handlers[h]

\* db2 is db but for the credit of amount to id, with one history entry
CreditedOnly(db, db2, id, amount) ==
    /\ DOMAIN db2 = DOMAIN db \cup {id}
    /\ \A k \in DOMAIN db : k # id => db2[k] = db[k]
    /\ db2[id].gold = GoldOf(db, id) + amount
    /\ Len(db2[id].history) = (IF id \in DOMAIN db THEN Len(db[id].history) ELSE 0) + 1
    /\ db2[id].history[Len(db2[id].history)].change = amount
    /\ id \in DOMAIN db =>
          /\ db2[id].cooldowns = db[id].cooldowns
          /\ SubSeq(db2[id].history, 1, Len(db[id].history)) = db[id].history

\* db2 is db but for a fresh, empty account of id when db had none
CreatedOnly(db, db2, id) ==
    /\ DOMAIN db2 = DOMAIN db \cup {id}
    /\ \A k \in DOMAIN db : db2[k] = db[k]
    /\ id \notin DOMAIN db =>
          db2[id] = [gold |-> 0, cooldowns |-> [k \in {} |-> 0], history |-> <<>>]

LeadingInt(a) ==
    LET body == IF a # <<>> /\ Head(a) \in {"-", "+"} THEN Tail(a) ELSE a
        n == DecValue(DigitPrefix(body))
    IN  IF a # <<>> /\ Head(a) = "-" THEN 0 - n ELSE n

TheBet == DecValue((CHOOSE m \in inbox : TRUE).args[1])
StartGold == file[U2].history[1].change

\* every handler has returned and each one committed a losing debit
AllLost ==
    /\ \A h \in H : handlers[h].pc = "done"
    /\ Len(file[U2].history) = MaxHandlers + 1
    /\ \A i \in 2..Len(file[U2].history) : file[U2].history[i].change < 0

\* C3: N concurrent wagers on one account, each settling as a loss of the same
\* bet b, from a balance B >= N * b, leave exactly B - N * b in every interleaving.
C3_NoLostDebit ==
    AllLost => file[U2].gold = StartGold - MaxHandlers * TheBet

\* all wagers were checked before any was settled, and all of them lost
C3_Witness ==
    /\ AllLost
    /\ file[U2].gold = StartGold - MaxHandlers * TheBet
    /\ StartGold = MaxHandlers * TheBet

\* the cooldown periods as the claims state them, in milliseconds
ClaimPeriod(cmd) ==
    CASE cmd = "dig" -> 30 * 60000
      [] cmd = "fish" -> 30 * 60000
      [] cmd = "work" -> 60 * 60000
      [] cmd = "daily" -> 24 * 60 * 60000
      [] cmd = "weekly" -> 7 * 24 * 60 * 60000

\* handler h has run canClaim for an earning action
Checked(h) ==
    /\ handlers[h].cmd \in EarnCmds
    /\ handlers[h].pc \in {"decline", "credit", "setcd", "done"}

\* handler h passed canClaim and has not yet recorded the cooldown
InWindow(h) == handlers[h].cmd \in EarnCmds /\ handlers[h].pc \in {"credit", "setcd"}

\* handler h was granted, and has credited the reward and recorded the cooldown
Committed(h) == handlers[h].cmd \in EarnCmds /\ handlers[h].pc = "done" /\ handlers[h].ok

SameClaim(g, h) ==
    /\ g # h
    /\ handlers[g].userId = handlers[h].userId
    /\ handlers[g].cmd = handlers[h].cmd

\* C5: of concurrent invocations of one earning action on one account at most
\* one is granted within one cooldown period: no second one passes canClaim
\* between another's canClaim and its setCooldown, and a second grant is
\* checked a full period after the first was recorded.
C5_SingleGrantPerPeriod ==
    \A g, h \in H :
        SameClaim(g, h) =>
            /\ ~(InWindow(g) /\ InWindow(h))
            /\ (Committed(g) /\ Checked(h) /\ handlers[h].ok) =>
                  \/ handlers[h].checkedAt - handlers[g].grantedAt >= ClaimPeriod(handlers[g].cmd)
                  \/ /\ Committed(h)
                     /\ handlers[g].checkedAt - handlers[h].grantedAt
                           >= ClaimPeriod(handlers[g].cmd)

\* two invocations were pending together; one was granted, the other declined
C5_Witness ==
    \E g, h \in H :
        /\ SameClaim(g, h)
        /\ Committed(g)
        /\ handlers[h].pc = "done" /\ ~handlers[h].ok
        /\ handlers[h].checkedAt >= handlers[g].grantedAt

\* C6: a granted claim applies the reward credit and the cooldown timestamp as
\* one unit: a state with the reward credited and the cooldown not yet recorded
\* is seen by no other handler and is never what a crash leaves behind.
C6_CreditAndCooldownAtomic ==
    \A h \in H : handlers[h].pc = "setcd" => (cpu = h /\ ~crashed)

\* C7: after a claim recorded at t0, every claim of that action on that account
\* checked at t with t0 <= t <= t0 + P - 1 is declined, and every declined
\* claim is within P of a recorded claim (so one at t >= t0 + P is granted).
C7_CooldownWindow ==
    \A h \in H :
        Checked(h) =>
            /\ \A g \in H :
                  (/\ SameClaim(g, h) /\ Committed(g)
                   /\ handlers[g].grantedAt <= handlers[h].checkedAt
                   /\ handlers[h].checkedAt - handlers[g].grantedAt
                         <= ClaimPeriod(handlers[h].cmd) - 1)
                      => ~handlers[h].ok
            /\ ~handlers[h].ok =>
                  \E g \in H :
                      /\ SameClaim(g, h) /\ Committed(g)
                      /\ handlers[g].grantedAt <= handlers[h].checkedAt
                      /\ handlers[h].checkedAt - handlers[g].grantedAt
                            < ClaimPeriod(handlers[h].cmd)

\* a claim checked exactly one period after the recorded one has been granted
C7_Witness ==
    \E g, h \in H :
        /\ SameClaim(g, h) /\ Committed(g) /\ Committed(h)
        /\ handlers[h].checkedAt - handlers[g].grantedAt = ClaimPeriod(handlers[h].cmd)

\* the step in which handler h settles a wager that stakeAndCheck accepted
WagerSettles(h) ==
    /\ handlers[h].pc = "settle" /\ handlers[h].ok
    /\ handlers'[h].pc = "done"

\* the change of the balance of h's account in this step
GoldDelta(h) == file'[handlers[h].userId].gold - file[handlers[h].userId].gold

\* the history entry this step appended to h's account
AppendedEntry(h) ==
    file'[handlers[h].userId].history[Len(file'[handlers[h].userId].history)]

\* the step appended exactly one history entry to h's account
OneEntry(h) ==
    LET old == file[handlers[h].userId].history
        new == file'[handlers[h].userId].history
    IN  Len(new) = Len(old) + 1 /\ SubSeq(new, 1, Len(old)) = old

\* the multipliers a game can win with
WinMultipliers == {2, 5, 10, 14, 36}

\* C11: every accepted wager commits exactly one balance change: a loss is one
\* debit of exactly bet, a win with multiplier m one credit of exactly bet * m;
\* no wager debits and credits.
C11_SingleExactCommit ==
    [][\A h \in H :
          WagerSettles(h) =>
              /\ OneEntry(h)
              /\ \/ GoldDelta(h) = 0 - handlers[h].bet
                 \/ \E m \in WinMultipliers : GoldDelta(h) = handlers[h].bet * m]_vars

\* what does hold: one entry per wager, and the debit is of bet or of what is left
C11_SingleCommitClamped ==
    [][\A h \in H :
          WagerSettles(h) =>
              /\ OneEntry(h)
              /\ \/ /\ AppendedEntry(h).change = 0 - handlers[h].bet
                    /\ GoldDelta(h) =
                          0 - (IF handlers[h].bet <= file[handlers[h].userId].gold
                               THEN handlers[h].bet ELSE file[handlers[h].userId].gold)
                 \/ \E m \in WinMultipliers :
                       /\ AppendedEntry(h).change = handlers[h].bet * m
                       /\ GoldDelta(h) = handlers[h].bet * m]_vars

\* the multiplier the settled wager of h was committed with, read off the entry
SettledMult(h) ==
    IF AppendedEntry(h).change < 0 THEN 0
    ELSE AppendedEntry(h).change \div handlers[h].bet

\* the spin table as the claim states it, for the draw r = 100 * k / RandDen
SpinTableMult(k) ==
    IF k * 100 < 50 * RandDen THEN 0
    ELSE IF k * 100 < 85 * RandDen THEN 2
    ELSE IF k * 100 < 97 * RandDen THEN 5
    ELSE 10

\* the balance change the claims state for a bet settled with multiplier m
TableDelta(m, bet) == IF m = 0 THEN 0 - bet ELSE m * bet

\* C12: an accepted spin settled with draw r changes the balance by -bet for
\* r < 50, +2*bet for 50 <= r < 85, +5*bet for 85 <= r < 97 and +10*bet for
\* 97 <= r < 100: a function of the draw and the bet only.
C12_SpinTable ==
    [][\A h \in H :
          (WagerSettles(h) /\ handlers[h].cmd = "spin") =>
              \A k \in 0..(RandDen - 1) :
                  spinMult(k) = SettledMult(h) =>
                      GoldDelta(h) = TableDelta(SpinTableMult(k), handlers[h].bet)]_vars

\* what does hold: the table, whenever the bet is still covered at settlement
C12_SpinTableCovered ==
    [][\A h \in H :
          (/\ WagerSettles(h) /\ handlers[h].cmd = "spin"
           /\ handlers[h].bet <= file[handlers[h].userId].gold) =>
              \A k \in 0..(RandDen - 1) :
                  spinMult(k) = SettledMult(h) =>
                      GoldDelta(h) = TableDelta(SpinTableMult(k), handlers[h].bet)]_vars

\* the colour of wheel number w as the claim states it
TableColour(w) ==
    IF w = 0 THEN <<"green">>
    ELSE IF w % 2 = 0 THEN <<"black">> ELSE <<"red">>

\* the roulette table as the claim states it: the multiplier for a pick and wheel number w
RouletteTableMult(pick, w) ==
    IF pick = <<>> THEN 0
    ELSE IF \A i \in 1..Len(pick) : IsDigit(pick[i])
    THEN (IF DecValue(pick) = w THEN 36 ELSE 0)
    ELSE IF pick = <<"green">> /\ w = 0 THEN 14
    ELSE IF w # 0 /\ pick = TableColour(w) THEN 2
    ELSE 0

\* C18: an accepted roulette bet on wheel number w in 0..36 changes the balance
\* by -bet without a pick; by +36*bet for an all-digit pick equal to w and -bet
\* otherwise; for another pick by +14*bet when it is green and w = 0, +2*bet
\* when it is the colour of a nonzero w, and -bet otherwise.
C18_RouletteTable ==
    [][\A h \in H :
          (WagerSettles(h) /\ handlers[h].cmd = "roulette") =>
              \A k \in 0..(RandDen - 1) :
                  rouletteMult(Arg(handlers[h].args, 2), k) = SettledMult(h) =>
                      /\ rand(0, 36, k) \in 0..36
                      /\ GoldDelta(h) =
                            TableDelta(RouletteTableMult(Arg(handlers[h].args, 2),
                                                         rand(0, 36, k)),
                                       handlers[h].bet)]_vars

\* what does hold: the table, whenever the bet is still covered at settlement
C18_RouletteTableCovered ==
    [][\A h \in H :
          (/\ WagerSettles(h) /\ handlers[h].cmd = "roulette"
           /\ handlers[h].bet <= file[handlers[h].userId].gold) =>
              \A k \in 0..(RandDen - 1) :
                  rouletteMult(Arg(handlers[h].args, 2), k) = SettledMult(h) =>
                      /\ rand(0, 36, k) \in 0..36
                      /\ GoldDelta(h) =
                            TableDelta(RouletteTableMult(Arg(handlers[h].args, 2),
                                                         rand(0, 36, k)),
                                       handlers[h].bet)]_vars

\* db2 is what one ensureUser(id) may leave of db: db itself when the account
\* exists, else db with one new, empty account of id
Ensured(db, db2, id) ==
    IF id \in DOMAIN db THEN db2 = db
    ELSE /\ CreatedOnly(db, db2, id)
         /\ db2[id].gold = 0 /\ DOMAIN db2[id].cooldowns = {} /\ db2[id].history = <<>>

\* C13: ensureUser is idempotent: on an absent id it creates one account with
\* balance 0, no cooldowns and no history; on an existing account, and so when
\* repeated, it leaves the store as it is and resets nothing.
C13_EnsureUserIdempotent ==
    [][/\ \A h \in H :
             /\ (handlers[h].pc = "idle" /\ handlers'[h].pc = "dispatch")
                   => Ensured(file, file', handlers'[h].userId)
             /\ (handlers[h].pc = "dispatch" /\ handlers'[h].pc = "give_add")
                   => Ensured(file, file', handlers'[h].recipient)
       /\ \A id \in {U1, U2} :
             /\ Ensured(file', ensureUser(file', id), id)
             /\ ensureUser(ensureUser(file', id), id) = ensureUser(file', id)]_vars

\* two invocations have each ensured the account of one new caller, created
\* empty by the first, next to an account that holds gold
C13_Witness ==
    /\ \E g, h \in H :
          /\ g # h
          /\ handlers[g].pc = "dispatch" /\ handlers[g].userId = U1
          /\ handlers[h].pc = "dispatch" /\ handlers[h].userId = U1
    /\ U1 \in DOMAIN file /\ file[U1].gold = 0 /\ file[U1].history = <<>>
    /\ U2 \in DOMAIN file /\ file[U2].gold > 0

\* the account of h has the daily cooldown recorded
DailyRecorded(db, id) == id \in DOMAIN db /\ "daily" \in DOMAIN db[id].cooldowns

\* C14: on a new account the first daily claim is granted whatever the time,
\* and leaves a balance in [150, 400] with the daily cooldown recorded; a second
\* daily claim less than 24 h after it is declined and changes nothing.
C14_DailyOnNewAccount ==
    [][\A h \in H :
          handlers[h].cmd = "daily" =>
              LET id == handlers[h].userId
              IN  /\ (handlers[h].pc = "dispatch" /\ handlers'[h].pc # "dispatch") =>
                        /\ ~DailyRecorded(file, id) => handlers'[h].pc = "credit"
                        /\ (/\ DailyRecorded(file, id)
                            /\ now - file[id].cooldowns["daily"] < 24 * 60 * 60000) =>
                               (handlers'[h].pc = "decline" /\ file' = file)
                  /\ handlers[h].pc = "decline" => file' = file
                  /\ (/\ handlers[h].pc = "setcd" /\ handlers'[h].pc = "done"
                      /\ Len(file[id].history) = 1) =>
                        /\ file'[id].gold >= 150 /\ file'[id].gold <= 400
                        /\ DailyRecorded(file', id)
                        /\ file'[id].cooldowns["daily"] = now
                        /\ file'[id].history = file[id].history]_vars

\* the first daily claim was granted and a second one, checked later within
\* the day, has been declined: the account holds the one bonus
C14_Witness ==
    \E g, h \in H :
        /\ SameClaim(g, h) /\ handlers[g].cmd = "daily"
        /\ Committed(g)
        /\ handlers[h].pc = "done" /\ ~handlers[h].ok
        /\ handlers[h].checkedAt > handlers[g].grantedAt
        /\ Len(file[U2].history) = 1
        /\ file[U2].gold >= 150 /\ file[U2].gold <= 400

\* the record new still holds what the record old held: its history as a
\* prefix and its cooldown keys
Intact(old, new) ==
    /\ Len(new.history) >= Len(old.history)
    /\ SubSeq(new.history, 1, Len(old.history)) = old.history
    /\ DOMAIN old.cooldowns \subseteq DOMAIN new.cooldowns

\* C15: an account of the persisted store is there, its record intact, after
\* every later operation on any account, also when the operation's store read
\* fails and load falls back to the empty collection.
C15_AccountsPersist ==
    [][\A id \in DOMAIN file :
          id \in DOMAIN file' /\ Intact(file[id], file'[id])]_vars

\* C16: for every account and action key the stored cooldown timestamp never
\* decreases (and is never dropped), in any interleaving, the clock not running
\* backwards.
C16_CooldownMonotone ==
    [][\A id \in DOMAIN file :
          \A key \in DOMAIN file[id].cooldowns :
              /\ id \in DOMAIN file'
              /\ key \in DOMAIN file'[id].cooldowns
              /\ file'[id].cooldowns[key] >= file[id].cooldowns[key]]_vars

\* a recorded cooldown has been overwritten by a later grant of the same action
C16_Witness ==
    \E g, h \in H :
        /\ SameClaim(g, h) /\ Committed(g) /\ Committed(h)
        /\ handlers[h].grantedAt > handlers[g].grantedAt
        /\ file[handlers[h].userId].cooldowns[handlers[h].cmd] = handlers[h].grantedAt

\* C17: whenever an earning claim is declined, the wait the handler reports,
\* P - (now - last) rounded up to whole units, is at least 1 and at most P in
\* units, although the clock is read in canClaim and again for the wait.
C17_DeclinedWaitPositive ==
    \A h \in H :
        (handlers[h].cmd \in EarnCmds /\ handlers[h].pc = "done" /\ ~handlers[h].ok) =>
            /\ handlers[h].wait >= 1
            /\ handlers[h].wait * waitUnit(handlers[h].cmd)
                  <= ClaimPeriod(handlers[h].cmd) + waitUnit(handlers[h].cmd) - 1

\* the account the step of handler h operates on: the caller's, or the
\* recipient's in the two store operations of a give
ActsOn(h) ==
    IF handlers[h].pc = "idle" THEN handlers'[h].userId
    ELSE IF handlers[h].cmd \in {"give", "grant"}
    THEN (IF handlers[h].pc = "give_add" THEN handlers[h].recipient
          ELSE parseUserArg(Arg(handlers[h].args, 1)))
    ELSE handlers[h].userId

\* C19: every store operation on one account, in any interleaving with
\* operations on other accounts, leaves every other account as it is (balance,
\* cooldowns and history), although each write saves the whole collection.
C19_OtherAccountsUnchanged ==
    [][/\ \A h \in H :
             handlers'[h] # handlers[h] =>
                 /\ DOMAIN file' \subseteq DOMAIN file \cup {ActsOn(h)}
                 /\ \A id \in DOMAIN file :
                       id # ActsOn(h) => (id \in DOMAIN file' /\ file'[id] = file[id])
       /\ handlers' = handlers => file' = file]_vars

\* both accounts hold a record with credits and a cooldown, written in turn
C19_Witness ==
    /\ U1 \in DOMAIN file /\ U2 \in DOMAIN file
    /\ file[U1].history # <<>> /\ "dig" \in DOMAIN file[U1].cooldowns
    /\ Len(file[U2].history) >= 2 /\ "dig" \in DOMAIN file[U2].cooldowns

\* C20: the balance of an account decreases only in the step that commits the
\* debit of a losing wager on that account; every other step (earning claim,
\* winning wager, give, balance query, declined request, cooldown update)
\* leaves the balance of every account equal or higher.
C20_OnlyLosingWagerDecreases ==
    [][\A id \in DOMAIN file :
          /\ id \in DOMAIN file'
          /\ file'[id].gold < file[id].gold =>
                \E h \in H : LosingDebit(h) /\ handlers[h].userId = id]_vars

\* an account credited by a give has then lost a wager: its balance went up by
\* the gift and down by the bet
C20_Witness ==
    /\ U2 \in DOMAIN file
    /\ Len(file[U2].history) = 3
    /\ file[U2].history[2].change = 2
    /\ file[U2].history[3].change = 0 - 1
    /\ file[U2].gold = 3

====
